---- MODULE Spec2Model ----
(***************************************************************************)
(* A model of src/app.py, the Streamlit to-do application: the task list   *)
(* kept in st.session_state, its mirror in tasks.json, the three Gemini    *)
(* helpers (ai_parse_task, ai_breakdown, ai_prioritize) and the script,    *)
(* which Streamlit runs from top to bottom once per user interaction.      *)
(*                                                                         *)
(* Text is a sequence of one-character strings, so that str.strip,         *)
(* str.split, str.join, str.title and str.splitlines are computed as       *)
(* Python computes them.                                                   *)
(***************************************************************************)
EXTENDS Integers, Sequences, FiniteSets, TLC

\* ------------------------------------------------------------------ text

\* The characters str.strip() removes (those of them the model uses).
Whitespace == {" ", "\n"}

\* U+2022, the second character of the strip set of line 113.
BULLET == "bullet"

LowerCase == << "a", "b", "c", "d", "e", "f", "g", "h", "i", "j", "k", "l", "m",
                "n", "o", "p", "q", "r", "s", "t", "u", "v", "w", "x", "y", "z" >>

UpperCase == << "A", "B", "C", "D", "E", "F", "G", "H", "I", "J", "K", "L", "M",
                "N", "O", "P", "Q", "R", "S", "T", "U", "V", "W", "X", "Y", "Z" >>

IsCased(c) == \E i \in 1..26 : c = LowerCase[i] \/ c = UpperCase[i]

ToUpper(c) ==
  IF \E i \in 1..26 : c = LowerCase[i]
  THEN UpperCase[CHOOSE i \in 1..26 : c = LowerCase[i]]
  ELSE c

ToLower(c) ==
  IF \E i \in 1..26 : c = UpperCase[i]
  THEN LowerCase[CHOOSE i \in 1..26 : c = UpperCase[i]]
  ELSE c

\* s with its leading characters in chars removed.
RECURSIVE LStrip(_, _)
LStrip(s, chars) ==
  IF s # << >> /\ Head(s) \in chars THEN LStrip(Tail(s), chars) ELSE s

\* s with its trailing characters in chars removed.
RECURSIVE RStrip(_, _)
RStrip(s, chars) ==
  IF s # << >> /\ s[Len(s)] \in chars
  THEN RStrip(SubSeq(s, 1, Len(s) - 1), chars)
  ELSE s

\* str.strip(chars)
StripChars(s, chars) == RStrip(LStrip(s, chars), chars)

\* str.strip()
Strip(s) == StripChars(s, Whitespace)

\* str.split(sep) for a one-character sep: the pieces between the occurrences
\* of sep, one more than there are occurrences.
Split(s, sep) ==
  LET at == { i \in 1..Len(s) : s[i] = sep }
      cut(k) == IF k = 0 THEN 0
                ELSE IF k > Cardinality(at) THEN Len(s) + 1
                ELSE CHOOSE p \in at : Cardinality({ q \in at : q < p }) = k - 1
  IN  [k \in 1..(Cardinality(at) + 1) |-> SubSeq(s, cut(k - 1) + 1, cut(k) - 1)]

\* str.splitlines(): the lines between "\n", no empty last line.
SplitLines(s) ==
  LET parts == Split(s, "\n")
  IN  IF parts[Len(parts)] = << >> THEN SubSeq(parts, 1, Len(parts) - 1) ELSE parts

\* sep.join(parts)
RECURSIVE Join(_, _)
Join(sep, parts) ==
  IF parts = << >> THEN << >>
  ELSE IF Len(parts) = 1 THEN parts[1]
  ELSE parts[1] \o << sep >> \o Join(sep, Tail(parts))

\* str.title(): a cased character is upper-cased at the start of a run of cased
\* characters and lower-cased inside it.
Title(s) ==
  [i \in 1..Len(s) |->
     IF ~IsCased(s[i]) THEN s[i]
     ELSE IF i > 1 /\ IsCased(s[i - 1]) THEN ToLower(s[i])
     ELSE ToUpper(s[i])]

\* Whether x occurs in the list s (Python's "x in s").
InList(x, s) == \E i \in 1..Len(s) : s[i] = x

\* The one element of a singleton set. Only({ F(v) : v \in { e } }) is F(e) with e
\* computed once.
Only(S) == CHOOSE x \in S : TRUE

\* A list comprehension's filter, and its map.
RECURSIVE MapStrip(_)
MapStrip(parts) ==
  IF parts = << >> THEN << >>
  ELSE << Strip(Head(parts)) >> \o MapStrip(Tail(parts))

NonEmpty(x) == x # << >>

\* [t.strip() for t in csv.split(",") if t.strip()], lines 186 and 245.
ParseTagsCsv(csv) == SelectSeq(MapStrip(Split(csv, ",")), NonEmpty)

\* ------------------------------------------------------------ constants

High == << "H", "i", "g", "h" >>

Medium == << "M", "e", "d", "i", "u", "m" >>

Low == << "L", "o", "w" >>

\* The options of the priority select boxes, in the order of lines 165 and 234.
Priorities == << High, Medium, Low >>

PrioritySet == { High, Medium, Low }

\* None, as the value of a task's due date.
None == << >>

\* The longest subtask line ai_breakdown keeps, and how many lines it keeps.
MaxSubtaskLen == 140

MaxParts == 6

\* "New subtask", line 258 (the text as one token).
NewSubtaskTitle == << "New subtask" >>

\* ------------------------------------------------------- JSON and provider

\* A JSON value as json.loads returns it: a str, None, a non-zero number, or a
\* list of str.
JStr(s) == [type |-> "string", v |-> s]

JNull == [type |-> "null", v |-> << >>]

JNum == [type |-> "number", v |-> << >>]

JArr(items) == [type |-> "array", v |-> items]

\* Python's truth value of a JSON value ("x or default").
Truthy(j) ==
  CASE j.type = "string" -> j.v # << >>
    [] j.type = "array" -> j.v # << >>
    [] j.type = "number" -> TRUE
    [] OTHER -> FALSE

\* The tokens of a provider's response text: commentary, a brace, a bracket, one
\* "key": value member of an object, or one element of an array.
TextTok == [tok |-> "text", key |-> "", value |-> JNull]

LBrace == [tok |-> "{", key |-> "", value |-> JNull]

RBrace == [tok |-> "}", key |-> "", value |-> JNull]

LBracket == [tok |-> "[", key |-> "", value |-> JNull]

RBracket == [tok |-> "]", key |-> "", value |-> JNull]

Member(k, val) == [tok |-> "member", key |-> k, value |-> val]

\* An array element {"title": .., "priority": ..}: value.v holds its members. An
\* element that is no object (a number) has key "scalar".
Element(members) == [tok |-> "element", key |-> "object", value |-> JArr(members)]

ScalarElement == [tok |-> "element", key |-> "scalar", value |-> JNum]

\* What model.generate_content(...) followed by resp.text gives: an exception or
\* the response text.
Raises == [raises |-> TRUE, text |-> << >>]

Responds(text) == [raises |-> FALSE, text |-> text]

\* re.search(open .* close, content, re.DOTALL): the span from the first open to
\* the last close after it, or no match.
HasMatch(content, open, close) ==
  \E i, j \in 1..Len(content) : i < j /\ content[i] = open /\ content[j] = close

MatchGroup(content, open, close) ==
  LET i == CHOOSE a \in 1..Len(content) :
             content[a] = open /\ \A b \in 1..(a - 1) : content[b] # open
      j == CHOOSE a \in 1..Len(content) :
             content[a] = close /\ \A b \in (a + 1)..Len(content) : content[b] # close
  IN  SubSeq(content, i, j)

\* Whether json.loads accepts the span: an opening token, then only tokens of
\* kind inner, then the closing token.
Parses(span, open, close, inner) ==
  /\ Len(span) >= 2
  /\ span[1] = open
  /\ span[Len(span)] = close
  /\ \A i \in 2..(Len(span) - 1) : span[i].tok = inner

\* The members (or elements) of a span json.loads accepts.
Inner(span) == SubSeq(span, 2, Len(span) - 1)

HasKey(members, k) == \E i \in 1..Len(members) : members[i].key = k

\* dict.get(k, default): the last member named k wins, as in json.loads.
DictGet(members, k, default) ==
  IF HasKey(members, k)
  THEN members[CHOOSE i \in 1..Len(members) :
                 members[i].key = k /\ \A j \in (i + 1)..Len(members) : members[j].key # k].value
  ELSE default

\* -------------------------------------------------------------- AI helpers

\* The result of a helper: whether an exception left it, else what it returned.
Returned(val) == [raised |-> FALSE, value |-> val]

Raised == [raised |-> TRUE, value |-> << >>]

\* The all-default dict of lines 71 and 100.
ParseFallback(prompt) ==
  [title |-> JStr(Strip(prompt)), priority |-> Medium, due |-> JNull, tags |-> JArr(<< >>)]

\* Lines 73-96, the body of ai_parse_task's try: "exception", "return" with the
\* dict of lines 91-96, or "fallthrough" when the regex finds nothing.
ParseTry(prompt, resp) ==
  IF resp.raises THEN [how |-> "exception", value |-> ParseFallback(prompt)]
  ELSE IF ~HasMatch(resp.text, LBrace, RBrace)
  THEN [how |-> "fallthrough", value |-> ParseFallback(prompt)]
  ELSE
    LET span == MatchGroup(resp.text, LBrace, RBrace)
        data == Inner(span)
        p    == DictGet(data, "priority", JNull)
        q    == IF Truthy(p) THEN p ELSE JStr(Medium)
        t    == DictGet(data, "tags", JNull)
    IN  IF ~Parses(span, LBrace, RBrace, "member")
        THEN [how |-> "exception", value |-> ParseFallback(prompt)]
        ELSE IF q.type # "string"
        THEN [how |-> "exception", value |-> ParseFallback(prompt)]
        ELSE [how |-> "return",
              value |-> [title    |-> DictGet(data, "title", JStr(Strip(prompt))),
                         priority |-> Title(q.v),
                         due      |-> DictGet(data, "due", JNull),
                         tags     |-> IF Truthy(t) THEN t ELSE JArr(<< >>)]]

\* ai_parse_task with a fault: an exception of the try block is not caught.
ai_parse_task_uncaught(prompt, available, resp) ==
  IF ~available THEN Returned(ParseFallback(prompt))
  ELSE LET r == ParseTry(prompt, resp)
       IN  IF r.how = "return" THEN Returned(r.value)
           ELSE IF r.how = "exception" THEN Raised
           ELSE Returned(ParseFallback(prompt))

\* ai_parse_task, lines 68-100. available is GEMINI_AVAILABLE, resp what the
\* provider does when called.
ai_parse_task(prompt, available, resp) ==
  IF ~available THEN Returned(ParseFallback(prompt))
  ELSE LET r == ParseTry(prompt, resp)
       IN  IF r.how = "return" THEN Returned(r.value)
           ELSE Returned(ParseFallback(prompt))

\* [ln.strip("-bullet ").strip() for ln in lines if ln.strip()], line 113.
RECURSIVE CleanLines(_)
CleanLines(lines) ==
  IF lines = << >> THEN << >>
  ELSE IF Strip(Head(lines)) = << >> THEN CleanLines(Tail(lines))
  ELSE << Strip(StripChars(Head(lines), {"-", BULLET, " "})) >> \o CleanLines(Tail(lines))

KeptLine(ln) == 0 < Len(ln) /\ Len(ln) <= MaxSubtaskLen

\* seq[:n]
Take(seq, n) == SubSeq(seq, 1, IF Len(seq) < n THEN Len(seq) ELSE n)

\* ai_breakdown, lines 103-117. A disabled gateway only shows the warning of
\* line 106: the provider is called all the same.
ai_breakdown(title, available, resp) ==
  IF resp.raises THEN Returned(<< >>)
  ELSE Returned(Take(SelectSeq(CleanLines(SplitLines(resp.text)), KeptLine), MaxParts))

\* The dict comprehension of line 143 over the parsed array: the (title, priority)
\* pairs in order, or the exception one of its elements raises: a scalar element
\* ("title" in 5), an unhashable title, a missing or non-str priority.
ElementRaises(e) ==
  \/ e.key = "scalar"
  \/ /\ HasKey(e.value.v, "title")
     /\ \/ DictGet(e.value.v, "title", JNull).type = "array"
        \/ ~HasKey(e.value.v, "priority")
        \/ DictGet(e.value.v, "priority", JNull).type # "string"

RECURSIVE MappingPairs(_)
MappingPairs(updates) ==
  IF updates = << >> THEN << >>
  ELSE LET e == Head(updates)
       IN  IF HasKey(e.value.v, "title")
           THEN << [title    |-> DictGet(e.value.v, "title", JNull),
                    priority |-> Title(DictGet(e.value.v, "priority", JNull).v)] >>
                \o MappingPairs(Tail(updates))
           ELSE MappingPairs(Tail(updates))

\* t["title"] in mapping, and mapping[t["title"]]: the last pair of a title wins.
InMapping(pairs, title) ==
  \E i \in 1..Len(pairs) : pairs[i].title.type = "string" /\ pairs[i].title.v = title

MappingAt(pairs, title) ==
  pairs[CHOOSE i \in 1..Len(pairs) :
          /\ pairs[i].title.type = "string" /\ pairs[i].title.v = title
          /\ \A j \in (i + 1)..Len(pairs) :
               ~(pairs[j].title.type = "string" /\ pairs[j].title.v = title)].priority

\* The loop of lines 144-146.
ApplyMapping(ts, pairs) ==
  [i \in 1..Len(ts) |->
     IF InMapping(pairs, ts[i].title)
     THEN [ts[i] EXCEPT !.priority = MappingAt(pairs, ts[i].title)]
     ELSE ts[i]]

\* The elements before the first one that raises.
RECURSIVE ReadableElements(_)
ReadableElements(updates) ==
  IF updates = << >> \/ ElementRaises(Head(updates)) THEN << >>
  ELSE << Head(updates) >> \o ReadableElements(Tail(updates))

\* ai_prioritize with a fault: each entry is applied as it is read, so the
\* entries before one that raises have taken effect.
ai_prioritize_eager(ts, available, resp) ==
  IF ~available \/ ts = << >> THEN Returned(ts)
  ELSE IF resp.raises THEN Returned(ts)
  ELSE IF ~HasMatch(resp.text, LBracket, RBracket) THEN Returned(ts)
  ELSE LET span == MatchGroup(resp.text, LBracket, RBracket)
       IN  IF ~Parses(span, LBracket, RBracket, "element") THEN Returned(ts)
           ELSE Returned(ApplyMapping(ts, MappingPairs(ReadableElements(Inner(span)))))

\* ai_prioritize, lines 120-150.
ai_prioritize(ts, available, resp) ==
  IF ~available \/ ts = << >> THEN Returned(ts)
  ELSE IF resp.raises THEN Returned(ts)
  ELSE IF ~HasMatch(resp.text, LBracket, RBracket) THEN Returned(ts)
  ELSE LET span == MatchGroup(resp.text, LBracket, RBracket)
       IN  IF ~Parses(span, LBracket, RBracket, "element") THEN Returned(ts)
           ELSE IF \E i \in 1..Len(Inner(span)) : ElementRaises(Inner(span)[i])
           THEN Returned(ts)
           ELSE Returned(ApplyMapping(ts, MappingPairs(Inner(span))))

\* ------------------------------------------------------------------ state

VARIABLES
  tasks,             \* st.session_state["tasks"], the list every run works on
  disk,              \* the content of DATA_FILE
  issued,            \* the ids uuid.uuid4() has returned so far
  user_api_key,      \* whether the sidebar's key field is non-empty
  configured,        \* whether genai.configure(api_key=..) has been called
  show_only_open,    \* the sidebar's "Show only open tasks" checkbox
  selected_priority, \* the sidebar's "Filter by priority" selection
  tag_filter,        \* the sidebar's "Filter by tag" field, stripped
  outcome,           \* how the last script run ended, and its last save_tasks
  failures,          \* how many writes of DATA_FILE have failed
  runs,              \* how many runs of the script the session has seen
  call               \* the last call of an AI helper on its own (SpecGateway)

vars == << tasks, disk, issued, user_api_key, configured, show_only_open,
           selected_priority, tag_filter, outcome, failures, runs, call >>

\* ------------------------------------------------------------------ bounds

MaxTasks == 2

MaxSubtasks == 1

MaxIds == 3

MaxWriteFailures == 1

MaxRuns == 4

\* ------------------------------------------------------------- data layer

\* DATA_FILE holding json.dump's complete output for ts.
Snapshot(ts) == [state |-> "json", tasks |-> ts]

\* DATA_FILE truncated by open(.., "w") and not, or not wholly, written.
Partial == [state |-> "partial", tasks |-> << >>]

WriteOutcomes == { "ok", "open_failed", "dump_failed" }

\* Lines 46-50: open(DATA_FILE, "w") then json.dump; an exception of either is
\* swallowed. A failed open leaves the file as it was, a failed dump leaves it
\* truncated.
WriteFile(d, ts, w) ==
  CASE w = "ok" -> Snapshot(ts)
    [] w = "open_failed" -> d
    [] OTHER -> Partial

\* save_tasks, lines 44-50, on the state S of a run; the run's n-th call takes
\* the n-th outcome of w.
save_tasks(S, ts, w) ==
  [S EXCEPT !.tasks = ts,
            !.disk = WriteFile(S.disk, ts, w[S.nsave + 1]),
            !.save = IF w[S.nsave + 1] = "ok" THEN "ok" ELSE "failed",
            !.failed = @ + (IF w[S.nsave + 1] = "ok" THEN 0 ELSE 1),
            !.nsave = @ + 1]

\* uuid4 with a fault: the value returned last is returned again.
uuid4_repeats(used) == IF used = {} THEN 1 ELSE Cardinality(used)

\* str(uuid.uuid4()), line 55: a value not returned before.
uuid4(used) == Cardinality(used) + 1

\* new_task_dict, lines 53-63 (created_at, written once and never read, is left
\* out). title is a str here.
new_task_dict(id, title, due, priority, tags) ==
  [id |-> id, title |-> Strip(title), done |-> FALSE, due |-> due,
   priority |-> priority, tags |-> tags, subtasks |-> << >>]

\* ---------------------------------------------------------------- filters

\* task_matches_filters with a fault: a tag filter decides alone, before the
\* other two predicates are looked at.
task_matches_filters_tag_first(t, f) ==
  IF f.tag_filter # << >> THEN InList(f.tag_filter, t.tags)
  ELSE IF f.show_only_open /\ t.done THEN FALSE
  ELSE IF f.selected_priority # {} /\ t.priority \notin f.selected_priority THEN FALSE
  ELSE TRUE

\* task_matches_filters with a fault: the open-only test is inverted.
task_matches_filters_hides_open(t, f) ==
  IF f.show_only_open /\ ~t.done THEN FALSE
  ELSE IF f.selected_priority # {} /\ t.priority \notin f.selected_priority THEN FALSE
  ELSE IF f.tag_filter # << >> THEN InList(f.tag_filter, t.tags)
  ELSE TRUE

\* task_matches_filters, lines 215-222.
task_matches_filters(t, f) ==
  IF f.show_only_open /\ t.done THEN FALSE
  ELSE IF f.selected_priority # {} /\ t.priority \notin f.selected_priority THEN FALSE
  ELSE IF f.tag_filter # << >> THEN InList(f.tag_filter, t.tags)
  ELSE TRUE

\* open_tasks, line 225.
RECURSIVE OpenTasks(_, _)
OpenTasks(ts, f) ==
  IF ts = << >> THEN << >>
  ELSE (IF task_matches_filters(Head(ts), f) THEN << Head(ts) >> ELSE << >>)
       \o OpenTasks(Tail(ts), f)

\* ------------------------------------------------------------- script run

\* One user interaction, which Streamlit answers by one run of the script. kind
\* names the widget changed or the button pressed; target is the id of the task
\* it belongs to; the other fields are what the widgets and the provider give.
NoInput ==
  [kind |-> "none", target |-> 0, flag |-> FALSE, text |-> << >>, tags |-> << >>,
   due |-> None, priority |-> Medium, sub |-> 0, resp |-> Raises]

\* The widgets of one subtask, lines 249-254: each returns its value unless it is
\* the one the user changed.
RenderSubtasks(t, e) ==
  [i \in 1..Len(t.subtasks) |->
     [title |-> IF e.target = t.id /\ e.kind = "sub_title" /\ e.sub = i
                THEN e.text ELSE t.subtasks[i].title,
      done  |-> IF e.target = t.id /\ e.kind = "sub_done" /\ e.sub = i
                THEN e.flag ELSE t.subtasks[i].done]]

RECURSIVE AsSubtasks(_)
AsSubtasks(parts) ==
  IF parts = << >> THEN << >>
  ELSE << [title |-> Head(parts), done |-> FALSE] >> \o AsSubtasks(Tail(parts))

\* The body of the loop of line 228 for one task, lines 229-269. A widget
\* returns the value it is given unless it is the one the user changed. The
\* select box of line 234 raises ValueError for a priority that is no option.
RenderTask(t, e, available) ==
  LET mine == e.target = t.id
      t1 == [t EXCEPT !.done = IF mine /\ e.kind = "done" THEN e.flag ELSE @]
      t2 == [t1 EXCEPT
               !.priority = IF mine /\ e.kind = "priority" THEN e.priority ELSE @,
               !.due = IF mine /\ e.kind = "due" THEN e.due ELSE @,
               !.tags = ParseTagsCsv(IF mine /\ e.kind = "tags" THEN e.text
                                     ELSE Join(",", t1.tags)),
               !.subtasks = RenderSubtasks(t1, e)]
      t3 == [t2 EXCEPT
               !.subtasks =
                 IF mine /\ e.kind = "add_sub"
                 THEN Append(@, [title |-> NewSubtaskTitle, done |-> FALSE])
                 ELSE IF mine /\ e.kind = "ai_bd"
                 THEN @ \o AsSubtasks(ai_breakdown(t2.title, available, e.resp).value)
                 ELSE @]
  IN  IF t1.priority \notin PrioritySet THEN [task |-> t1, stop |-> "crash"]
      ELSE IF mine /\ e.kind = "delete" THEN [task |-> t3, stop |-> "delete"]
      ELSE [task |-> t3, stop |-> "next"]

\* [x for x in tasks if x["id"] != id], line 267.
RECURSIVE WithoutId(_, _)
WithoutId(ts, id) ==
  IF ts = << >> THEN << >>
  ELSE (IF Head(ts).id # id THEN << Head(ts) >> ELSE << >>) \o WithoutId(Tail(ts), id)

\* The loop of lines 228-269 from position k on, over the tasks whose ids are in
\* open (open_tasks was built before the loop). It mutates the tasks in place; it
\* ends at the end of the list, at an exception, or at the st.rerun() of a delete.
RECURSIVE RenderLoop(_, _, _, _, _)
RenderLoop(ts, open, k, e, available) ==
  IF k > Len(ts) THEN [tasks |-> ts, stop |-> "end", deleted |-> 0]
  ELSE IF ts[k].id \notin open THEN RenderLoop(ts, open, k + 1, e, available)
  ELSE Only({ IF r.stop = "crash"
              THEN [tasks |-> [ts EXCEPT ![k] = r.task], stop |-> "crash", deleted |-> 0]
              ELSE IF r.stop = "delete"
              THEN [tasks |-> [ts EXCEPT ![k] = r.task], stop |-> "delete",
                    deleted |-> ts[k].id]
              ELSE Only({ RenderLoop(next, open, k + 1, e, available) :
                          next \in { [ts EXCEPT ![k] = r.task] } }) :
              r \in { RenderTask(ts[k], e, available) } })

OpenIds(ts, f) == { ts[i].id : i \in { j \in 1..Len(ts) : task_matches_filters(ts[j], f) } }

\* The state of a run about to start: the list of load_tasks (line 168, the
\* session's list), the file, and no save yet.
StartRun(ts, d, used) ==
  [tasks |-> ts, disk |-> d, issued |-> used, stop |-> "run", save |-> "none",
   failed |-> 0, nsave |-> 0]

\* date.fromisoformat accepts these.
IsoDates == { << "2024-03-01" >> }

\* Lines 196-201: the parsed due date, None for an absent, empty or invalid one.
ParsedDue(j) ==
  IF j.type = "string" /\ j.v \in IsoDates THEN j.v ELSE None

\* Lines 184-210, the two buttons of the form.
FormStage(S, e, available, w) ==
  IF e.kind = "add" /\ Strip(e.text) # << >>
  THEN Only({ save_tasks([S EXCEPT !.issued = @ \cup {t.id}], Append(S.tasks, t), w) :
              t \in { new_task_dict(uuid4(S.issued), e.text, e.due, e.priority,
                                    ParseTagsCsv(Strip(e.tags))) } })
  ELSE IF e.kind = "ai_add" /\ Strip(e.text) # << >>
  THEN Only({ IF parsed.title.type # "string" THEN [S EXCEPT !.stop = "crash"]
              ELSE Only({ save_tasks([S EXCEPT !.issued = @ \cup {t.id}],
                                     Append(S.tasks, t), w) :
                          t \in { new_task_dict(uuid4(S.issued), parsed.title.v,
                                                ParsedDue(parsed.due), parsed.priority,
                                                parsed.tags.v) } }) :
              parsed \in { ai_parse_task(Strip(e.text), available, e.resp).value } })
  ELSE S

\* Lines 225-271: the list, then the save of line 271. A delete saves the list
\* without the task and calls st.rerun(), which ends the run there.
ListStage(S, f, e, available, w) ==
  IF S.stop # "run" THEN S
  ELSE Only({ IF r.stop = "crash" THEN [S EXCEPT !.tasks = r.tasks, !.stop = "crash"]
              ELSE IF r.stop = "delete"
              THEN [save_tasks(S, WithoutId(r.tasks, r.deleted), w) EXCEPT !.stop = "rerun"]
              ELSE save_tasks(S, r.tasks, w) :
              r \in { Only({ RenderLoop(S.tasks, open, 1, e, available) :
                             open \in { OpenIds(S.tasks, f) } }) } })

RECURSIVE AllDone(_)
AllDone(ts) ==
  IF ts = << >> THEN << >>
  ELSE << [Head(ts) EXCEPT !.done = TRUE] >> \o AllDone(Tail(ts))

\* Lines 274-285, the two buttons under the list.
BulkStage(S, e, available, w) ==
  IF S.stop # "run" THEN S
  ELSE IF e.kind = "ai_prioritize"
  THEN save_tasks(S, ai_prioritize(S.tasks, available, e.resp).value, w)
  ELSE IF e.kind = "mark_all_done"
  THEN save_tasks(S, AllDone(S.tasks), w)
  ELSE S

\* One run of the script, lines 168-285, and the run st.rerun() starts after a
\* delete, in which no widget has changed.
ScriptRun(S, f, e, available, w) ==
  LET form  == { FormStage(S, e, available, w) }
      list  == { ListStage(s, f, e, available, w) : s \in form }
      first == { BulkStage(s, e, available, w) : s \in list }
      again == { IF s.stop = "rerun" THEN ListStage([s EXCEPT !.stop = "run"], f, NoInput,
                                                     available, w)
                 ELSE s : s \in first }
  IN  Only(again)

\* ----------------------------------------------------------------- inputs

\* What the user types and picks, and what the provider answers, in the runs of
\* Spec. The helpers meet a wider range of answers in SpecGateway.
X == << "x" >>

TitleInputs == { << " ", "a", " " >>, << " " >> }

TagsInputs == { << >>, << "x", ",", " ", ",", "x" >> }

DueInputs == { None, << "2024-03-01" >> }

PromptInputs == { << "a", " " >>, << " " >> }

SubtaskTitleInputs == { << "s" >> }

\* A well-formed answer among commentary, an answer whose values the form does
\* not expect, a title that is null, an answer without an object, an exception.
ParseResponses ==
  { Raises,
    Responds(<< TextTok >>),
    Responds(<< TextTok, LBrace, Member("title", JStr(<< "a" >>)),
                Member("priority", JStr(<< "h", "i", "g", "h" >>)),
                Member("due", JStr(<< "2024-03-01" >>)),
                Member("tags", JArr(<< X >>)), RBrace, TextTok >>),
    Responds(<< LBrace, Member("title", JStr(<< " " >>)),
                Member("priority", JStr(<< "u", "r", "g", "e", "n", "t" >>)),
                Member("tags", JArr(<< << " " >>, X, X >>)), RBrace >>),
    Responds(<< LBrace, Member("title", JNull), RBrace >>) }

BreakdownResponses ==
  { Raises, Responds(<< "-", " ", "s", "\n", " ", "\n" >>) }

PrioritizeResponses ==
  { Raises,
    Responds(<< TextTok, LBracket,
                Element(<< Member("title", JStr(<< "a" >>)),
                           Member("priority", JStr(<< "h", "i", "g", "h" >>)) >>),
                RBracket >>),
    Responds(<< LBracket,
                Element(<< Member("title", JStr(<< "a" >>)),
                           Member("priority", JStr(<< "a", "s", "a", "p" >>)) >>),
                RBracket >>),
    Responds(<< LBracket,
                Element(<< Member("title", JStr(<< "a" >>)),
                           Member("priority", JStr(<< "l", "o", "w" >>)) >>),
                Element(<< Member("title", JStr(<< >>)) >>),
                RBracket >>) }

PriorityFilters == { {}, { High } }

TagFilters == { << >>, X }

\* The outcomes of the (at most two) save_tasks calls of a run, of which at most
\* MaxWriteFailures - failures fail.
Fails(w) == Cardinality({ n \in 1..Len(w) : w[n] # "ok" })

WriteSeqs ==
  { w \in { << a, b >> : a \in WriteOutcomes, b \in WriteOutcomes } :
      failures + Fails(w) <= MaxWriteFailures }

\* ---------------------------------------------------------------- actions

Filters ==
  [show_only_open |-> show_only_open, selected_priority |-> selected_priority,
   tag_filter |-> tag_filter]

TaskIds(ts) == { ts[i].id : i \in 1..Len(ts) }

\* The task with this id.
TaskOf(id) == tasks[CHOOSE i \in 1..Len(tasks) : tasks[i].id = id]

\* The run that answers interaction e, with the sidebar holding key and f: lines
\* 21-25 configure the client when the key is set, then the script runs. The
\* provider can answer only through a client that has been configured.
Interact(e, key, f, w) ==
  /\ runs < MaxRuns
  /\ e.resp.raises \/ configured \/ key
  /\ e.kind \in { "add", "ai_add" } => Len(tasks) < MaxTasks /\ Cardinality(issued) < MaxIds
  /\ e.kind \in { "add_sub", "ai_bd" } => Len(TaskOf(e.target).subtasks) < MaxSubtasks
  /\ \E S \in { ScriptRun(S0, ff, ee, key, w) :
                  S0 \in { StartRun(tasks, disk, issued) }, ff \in { f }, ee \in { e } } :
      /\ \A n \in 1..2 : n > S.nsave => w[n] = "ok"
      /\ failures + S.failed <= MaxWriteFailures
      /\ \A i \in 1..Len(S.tasks) : Len(S.tasks[i].subtasks) <= MaxSubtasks
      /\ tasks' = S.tasks
      /\ disk' = S.disk
      /\ issued' = S.issued
      /\ user_api_key' = key
      /\ configured' = (configured \/ key)
      /\ show_only_open' = f.show_only_open
      /\ selected_priority' = f.selected_priority
      /\ tag_filter' = f.tag_filter
      /\ outcome' = [stop |-> IF S.stop = "crash" THEN "crash" ELSE "end", save |-> S.save]
      /\ failures' = failures + S.failed
      /\ runs' = runs + 1
      /\ UNCHANGED call

\* The key field of the sidebar is filled or cleared, lines 19-25.
SetApiKey ==
  \E key \in BOOLEAN, w \in WriteSeqs :
    /\ key # user_api_key
    /\ Interact(NoInput, key, Filters, w)

\* One of the three filter widgets of the sidebar changes, lines 164-166.
SetFilters ==
  \E f \in [show_only_open : BOOLEAN, selected_priority : PriorityFilters,
            tag_filter : TagFilters], w \in WriteSeqs :
    /\ Cardinality({ k \in { "show_only_open", "selected_priority", "tag_filter" } :
                       f[k] # Filters[k] }) = 1
    /\ Interact(NoInput, user_api_key, f, w)

\* The Add button, lines 184-191.
Add ==
  \E title \in TitleInputs, due \in DueInputs, priority \in PrioritySet,
     tags \in TagsInputs, w \in WriteSeqs :
    Interact([NoInput EXCEPT !.kind = "add", !.text = title, !.due = due,
                             !.priority = priority, !.tags = tags],
             user_api_key, Filters, w)

\* The AI Add button, lines 193-210.
AIAdd ==
  \E prompt \in PromptInputs, resp \in ParseResponses, w \in WriteSeqs :
    Interact([NoInput EXCEPT !.kind = "ai_add", !.text = prompt, !.resp = resp],
             user_api_key, Filters, w)

\* A widget of a task on the page is given another value, lines 232-245.
EditTask ==
  \E id \in OpenIds(tasks, Filters), w \in WriteSeqs :
    \/ Interact([NoInput EXCEPT !.kind = "done", !.target = id, !.flag = ~TaskOf(id).done],
                user_api_key, Filters, w)
    \/ \E priority \in PrioritySet \ { TaskOf(id).priority } :
         Interact([NoInput EXCEPT !.kind = "priority", !.target = id, !.priority = priority],
                  user_api_key, Filters, w)
    \/ \E due \in DueInputs \ { TaskOf(id).due } :
         Interact([NoInput EXCEPT !.kind = "due", !.target = id, !.due = due],
                  user_api_key, Filters, w)
    \/ \E tags \in TagsInputs \ { Join(",", TaskOf(id).tags) } :
         Interact([NoInput EXCEPT !.kind = "tags", !.target = id, !.text = tags],
                  user_api_key, Filters, w)

\* A widget of a subtask is given another value, lines 249-254.
EditSubtask ==
  \E id \in OpenIds(tasks, Filters), w \in WriteSeqs :
    \E sub \in 1..Len(TaskOf(id).subtasks) :
      \/ Interact([NoInput EXCEPT !.kind = "sub_done", !.target = id, !.sub = sub,
                                  !.flag = ~TaskOf(id).subtasks[sub].done],
                  user_api_key, Filters, w)
      \/ \E title \in SubtaskTitleInputs \ { TaskOf(id).subtasks[sub].title } :
           Interact([NoInput EXCEPT !.kind = "sub_title", !.target = id, !.sub = sub,
                                    !.text = title],
                    user_api_key, Filters, w)

\* The "Add subtask" button of a task, lines 257-258.
AddSubtask ==
  \E id \in OpenIds(tasks, Filters), w \in WriteSeqs :
    Interact([NoInput EXCEPT !.kind = "add_sub", !.target = id], user_api_key, Filters, w)

\* The "AI breakdown" button of a task, lines 260-264.
AIBreakdown ==
  \E id \in OpenIds(tasks, Filters), resp \in BreakdownResponses, w \in WriteSeqs :
    Interact([NoInput EXCEPT !.kind = "ai_bd", !.target = id, !.resp = resp],
             user_api_key, Filters, w)

\* The "Delete task" button of a task, lines 266-269.
DeleteTask ==
  \E id \in OpenIds(tasks, Filters), w \in WriteSeqs :
    Interact([NoInput EXCEPT !.kind = "delete", !.target = id], user_api_key, Filters, w)

\* The "AI prioritize all" button, lines 276-279.
AIPrioritizeAll ==
  \E resp \in PrioritizeResponses, w \in WriteSeqs :
    Interact([NoInput EXCEPT !.kind = "ai_prioritize", !.resp = resp],
             user_api_key, Filters, w)

\* The "Mark all done" button, lines 281-285.
MarkAllDone ==
  \E w \in WriteSeqs :
    Interact([NoInput EXCEPT !.kind = "mark_all_done"], user_api_key, Filters, w)

\* The session after its first run, with no DATA_FILE before it: load_tasks gave
\* the empty list, line 271 wrote it, no key is set and no filter.
Init ==
  /\ tasks = << >>
  /\ disk = Snapshot(<< >>)
  /\ issued = {}
  /\ user_api_key = FALSE
  /\ configured = FALSE
  /\ show_only_open = FALSE
  /\ selected_priority = {}
  /\ tag_filter = << >>
  /\ outcome = [stop |-> "end", save |-> "ok"]
  /\ failures = 0
  /\ runs = 0
  /\ call = [op |-> "none"]

Next ==
  \/ SetApiKey
  \/ SetFilters
  \/ Add
  \/ AIAdd
  \/ EditTask
  \/ EditSubtask
  \/ AddSubtask
  \/ AIBreakdown
  \/ DeleteTask
  \/ AIPrioritizeAll
  \/ MarkAllDone

Spec == Init /\ [][Next]_vars

\* ------------------------------------------------- the helpers on their own

\* A line of n characters.
LineOf(n) == [i \in 1..n |-> "z"]

GatewayPrompts == { << " ", "c", " " >>, << "c" >> }

\* Besides the answers of ParseResponses: two objects (the greedy regex spans
\* both), commentary inside the braces, a closing brace only, an empty object, a
\* priority that is a number, null or empty, tags that are null, a key twice.
GatewayParseResponses ==
  ParseResponses \cup
  { Responds(<< LBrace, Member("title", JStr(<< "a" >>)), RBrace, TextTok,
                LBrace, Member("title", JStr(<< "b" >>)), RBrace >>),
    Responds(<< LBrace, TextTok, RBrace >>),
    Responds(<< RBrace, TextTok, LBrace >>),
    Responds(<< LBrace, RBrace >>),
    Responds(<< LBrace, Member("title", JStr(<< "a" >>)), Member("priority", JNum), RBrace >>),
    Responds(<< LBrace, Member("title", JStr(<< "a" >>)), Member("priority", JNull),
                Member("tags", JNull), RBrace >>),
    Responds(<< LBrace, Member("priority", JStr(<< >>)),
                Member("priority", JStr(<< "L", "O", "W" >>)), RBrace >>) }

\* An exception, an empty text, bulleted lines among blank ones, a line of only
\* bullet characters, seven lines, and lines of 140 and of 141 characters.
GatewayBreakdownResponses ==
  { Raises,
    Responds(<< >>),
    Responds(<< "-", " ", "s", "\n", " ", "\n", BULLET, "t", " ", "\n", "-", " ", "-" >>),
    Responds(<< "a", "\n", "b", "\n", "c", "\n", "d", "\n", "e", "\n", "f", "\n", "g" >>),
    Responds(LineOf(MaxSubtaskLen) \o << "\n" >> \o LineOf(MaxSubtaskLen + 1)) }

SampleTask(id, title, priority, done) ==
  [new_task_dict(id, title, None, priority, << X >>) EXCEPT !.done = done]

GatewayTaskLists ==
  { << >>,
    << SampleTask(1, << "a" >>, Medium, FALSE) >>,
    << SampleTask(1, << "a" >>, Medium, TRUE), SampleTask(2, << "b" >>, Low, FALSE) >>,
    << SampleTask(1, << "a" >>, High, FALSE), SampleTask(2, << "a" >>, Low, FALSE) >>,
    << SampleTask(1, << "b" >>, Low, FALSE), SampleTask(2, << >>, Medium, FALSE) >> }

Entry(title, priority) ==
  Element(<< Member("title", JStr(title)), Member("priority", JStr(priority)) >>)

\* Besides the answers of PrioritizeResponses: no array, commentary inside the
\* brackets, an element that is a number, an element without title, a title that
\* is null or an array, a priority that is a number, a title twice, and a
\* well-formed element followed by one without priority.
GatewayPrioritizeResponses ==
  PrioritizeResponses \cup
  { Responds(<< TextTok >>),
    Responds(<< LBracket, TextTok, RBracket >>),
    Responds(<< LBracket, Entry(<< "a" >>, << "l", "o", "w" >>), ScalarElement, RBracket >>),
    Responds(<< LBracket, Element(<< Member("priority", JNum) >>),
                Entry(<< "b" >>, << "h", "i", "g", "h" >>), RBracket >>),
    Responds(<< LBracket, Element(<< Member("title", JNull),
                                     Member("priority", JStr(<< "l", "o", "w" >>)) >>),
                RBracket >>),
    Responds(<< LBracket, Entry(<< "b" >>, << "h", "i", "g", "h" >>),
                Element(<< Member("title", JArr(<< >>)),
                           Member("priority", JStr(<< "l", "o", "w" >>)) >>),
                RBracket >>),
    Responds(<< LBracket, Entry(<< "b" >>, << "h", "i", "g", "h" >>),
                Element(<< Member("title", JStr(<< "a" >>)), Member("priority", JNum) >>),
                RBracket >>),
    Responds(<< LBracket, Entry(<< "a" >>, << "l", "o", "w" >>),
                Entry(<< "a" >>, << "H", "I", "G", "H" >>), RBracket >>),
    Responds(<< LBracket, Entry(<< "a" >>, << "l", "o", "w" >>),
                Element(<< Member("title", JStr(<< "b" >>)) >>), RBracket >>) }

\* Lines 19-25 on their own: the key field is filled or cleared.
GatewayKey ==
  /\ user_api_key' = ~user_api_key
  /\ configured' = (configured \/ user_api_key')
  /\ UNCHANGED << tasks, disk, issued, show_only_open, selected_priority, tag_filter,
                  outcome, failures, runs, call >>

GatewayFrame ==
  UNCHANGED << tasks, disk, issued, user_api_key, configured, show_only_open,
               selected_priority, tag_filter, outcome, failures, runs >>

\* ai_parse_task is called on a prompt.
CallParse ==
  \E prompt \in GatewayPrompts, resp \in GatewayParseResponses :
    /\ resp.raises \/ configured
    /\ call' = [op |-> "parse", available |-> user_api_key, input |-> prompt,
                resp |-> resp, result |-> ai_parse_task(prompt, user_api_key, resp)]
    /\ GatewayFrame

\* ai_breakdown is called on a task's title, line 261.
CallBreakdown ==
  \E title \in { << "a" >> }, resp \in GatewayBreakdownResponses :
    /\ resp.raises \/ configured
    /\ call' = [op |-> "breakdown", available |-> user_api_key, input |-> title,
                resp |-> resp, result |-> ai_breakdown(title, user_api_key, resp)]
    /\ GatewayFrame

\* ai_prioritize is called on a task list, line 277.
CallPrioritize ==
  \E ts \in GatewayTaskLists, resp \in GatewayPrioritizeResponses :
    /\ resp.raises \/ configured
    /\ call' = [op |-> "prioritize", available |-> user_api_key, input |-> ts,
                resp |-> resp, result |-> ai_prioritize(ts, user_api_key, resp)]
    /\ GatewayFrame

GatewayNext ==
  \/ GatewayKey
  \/ CallParse
  \/ CallBreakdown
  \/ CallPrioritize

SpecGateway == Init /\ [][GatewayNext]_vars

\* ------------------------------------------------------------------ claims

\* The entries of seq at the positions in I, in order.
Pick(seq, I) ==
  [k \in 1..Cardinality(I) |->
     seq[CHOOSE p \in I : Cardinality({ q \in I : q < p }) = k - 1]]

\* The predicate sets the filter claims range over.
AllFilters ==
  [show_only_open : BOOLEAN,
   selected_priority : { {}, { High }, { Medium, Low }, { High, Medium, Low } },
   tag_filter : { << >>, X, << "y" >> }]

\* C1: in every reachable state the priority of every task is one of High,
\* Medium and Low.
C1_PriorityInEnum ==
  \A i \in 1..Len(tasks) : tasks[i].priority \in { High, Medium, Low }

\* C2: in every reachable state every task has a title that is not empty and
\* has no leading or trailing whitespace.
C2_TitleNonEmptyTrimmed ==
  \A i \in 1..Len(tasks) :
    /\ tasks[i].title # << >>
    /\ tasks[i].title[1] \notin Whitespace
    /\ tasks[i].title[Len(tasks[i].title)] \notin Whitespace

\* C3: no two tasks of the list share an id; and in every step the tasks that
\* stay keep their ids and their order, and every task that is new comes after
\* them with an id that uuid4 had never returned before.
IdsOf(ts) == [i \in 1..Len(ts) |-> ts[i].id]

C3_UniqueIds ==
  /\ [](\A i, j \in 1..Len(tasks) : i # j => tasks[i].id # tasks[j].id)
  /\ [][LET kept == { i \in 1..Len(tasks) : tasks[i].id \in TaskIds(tasks') }
            new  == { i \in 1..Len(tasks') : tasks'[i].id \notin TaskIds(tasks) }
        IN  /\ IdsOf(tasks') = Pick(IdsOf(tasks), kept) \o Pick(IdsOf(tasks'), new)
            /\ \A i \in new : tasks'[i].id \notin issued
            /\ \A i, j \in 1..Len(tasks') : i # j => tasks'[i].id # tasks'[j].id]_vars

\* C3's case: a task was deleted and a task was created after it, beside a task
\* that stayed.
C3_Witness ==
  /\ Len(tasks) = 2
  /\ Cardinality(issued) = 3
  /\ tasks[2].id = 3

\* C4 as claimed: with a tag filter set, the tasks shown are exactly those whose
\* tags contain it, whatever the open-only flag and the selected priorities.
C4_TagMatchAlone ==
  \A f \in AllFilters :
    f.tag_filter # << >> =>
      OpenTasks(tasks, f) =
        Pick(tasks, { i \in 1..Len(tasks) :
                        \E k \in 1..Len(tasks[i].tags) : tasks[i].tags[k] = f.tag_filter })

\* C4 as amended: with a tag filter set, the tasks shown are exactly those whose
\* tags contain it and that also pass the open-only flag and the selected
\* priorities.
C4_TagMatchAndOthers ==
  \A f \in AllFilters :
    f.tag_filter # << >> =>
      OpenTasks(tasks, f) =
        Pick(tasks, { i \in 1..Len(tasks) :
                        /\ \E k \in 1..Len(tasks[i].tags) : tasks[i].tags[k] = f.tag_filter
                        /\ ~(f.show_only_open /\ tasks[i].done)
                        /\ f.selected_priority = {}
                             \/ tasks[i].priority \in f.selected_priority })

\* C4's case: a task that carries the tag and is done, beside one that carries
\* it and is open.
C4_Witness ==
  /\ \E i \in 1..Len(tasks) : tasks[i].done /\ InList(X, tasks[i].tags)
  /\ \E i \in 1..Len(tasks) : ~tasks[i].done /\ InList(X, tasks[i].tags)

\* C5 as claimed: with open-only set and no tag filter, the tasks shown are the
\* tasks that are not done, in their order; with no predicate set, all tasks.
C5_OpenOnly ==
  \A f \in AllFilters :
    /\ f.show_only_open /\ f.tag_filter = << >> =>
         OpenTasks(tasks, f) = Pick(tasks, { i \in 1..Len(tasks) : ~tasks[i].done })
    /\ ~f.show_only_open /\ f.tag_filter = << >> /\ f.selected_priority = {} =>
         OpenTasks(tasks, f) = tasks

\* C5 as amended: with open-only set, no tag filter and no priority selected,
\* the tasks shown are the tasks that are not done, in their order; with no
\* predicate set, all tasks.
C5_OpenOnlyNoPriority ==
  \A f \in AllFilters :
    /\ f.show_only_open /\ f.tag_filter = << >> /\ f.selected_priority = {} =>
         OpenTasks(tasks, f) = Pick(tasks, { i \in 1..Len(tasks) : ~tasks[i].done })
    /\ ~f.show_only_open /\ f.tag_filter = << >> /\ f.selected_priority = {} =>
         OpenTasks(tasks, f) = tasks

\* C5's case: a done task before an open one.
C5_Witness ==
  /\ Len(tasks) = 2
  /\ tasks[1].done
  /\ ~tasks[2].done

\* C6: in every reachable state no task has a blank tag or the same tag twice.
C6_TagsNoBlankNoDuplicate ==
  \A i \in 1..Len(tasks) :
    /\ \A k \in 1..Len(tasks[i].tags) : Strip(tasks[i].tags[k]) # << >>
    /\ \A k, m \in 1..Len(tasks[i].tags) : k # m => tasks[i].tags[k] # tasks[i].tags[m]

\* Whether some part of the text is a JSON object.
HasParseableObject(text) ==
  \E i, j \in 1..Len(text) :
    /\ i < j
    /\ text[i] = LBrace
    /\ text[j] = RBrace
    /\ \A k \in (i + 1)..(j - 1) : text[k].tok = "member"

\* C7: ai_parse_task raises nothing, and when the gateway is disabled, the call
\* fails or the answer holds no JSON object it returns the trimmed input as
\* title, Medium, no due date and no tags.
C7_ParseFallback ==
  call.op = "parse" =>
    /\ ~call.result.raised
    /\ (~call.available \/ call.resp.raises \/ ~HasParseableObject(call.resp.text)) =>
         call.result.value =
           [title |-> JStr(Strip(call.input)), priority |-> << "M", "e", "d", "i", "u", "m" >>,
            due |-> JNull, tags |-> JArr(<< >>)]

\* C7's case: the enabled gateway got an answer with braces but no JSON object,
\* for a prompt with whitespace around it.
C7_Witness ==
  /\ call.op = "parse"
  /\ call.available
  /\ ~call.resp.raises
  /\ HasMatch(call.resp.text, LBrace, RBrace)
  /\ ~HasParseableObject(call.resp.text)
  /\ Strip(call.input) # call.input

\* C8: ai_breakdown returns the empty list when the gateway is disabled or the
\* call fails, and never more than 6 entries, a blank one or one longer than 140.
C8_BreakdownBounded ==
  call.op = "breakdown" =>
    /\ (~call.available \/ call.resp.raises) => call.result.value = << >>
    /\ Len(call.result.value) <= 6
    /\ \A k \in 1..Len(call.result.value) :
         /\ Strip(call.result.value[k]) # << >>
         /\ Len(call.result.value[k]) <= 140

\* Whether the answer has an entry whose title is exactly this one.
HasEntryFor(resp, title) ==
  /\ ~resp.raises
  /\ \E k \in 1..Len(resp.text) :
       /\ resp.text[k].tok = "element"
       /\ resp.text[k].key = "object"
       /\ \E m \in 1..Len(resp.text[k].value.v) :
            /\ resp.text[k].value.v[m].key = "title"
            /\ resp.text[k].value.v[m].value.type = "string"
            /\ resp.text[k].value.v[m].value.v = title

\* Whether reading the answer as an array of {title, priority} fails somewhere.
ParseFails(resp) ==
  \/ ~HasMatch(resp.text, LBracket, RBracket)
  \/ ~Parses(MatchGroup(resp.text, LBracket, RBracket), LBracket, RBracket, "element")
  \/ \E k \in 1..Len(resp.text) : resp.text[k].tok = "element" /\ ElementRaises(resp.text[k])

\* C9: ai_prioritize changes nothing but priorities, keeps the priority of a
\* task whose title no entry of the answer has, and returns every task as it was
\* when the gateway is disabled or the call or the parse fails anywhere.
C9_PrioritizeFrame ==
  call.op = "prioritize" =>
    /\ ~call.result.raised
    /\ Len(call.result.value) = Len(call.input)
    /\ \A i \in 1..Len(call.input) :
         /\ [call.result.value[i] EXCEPT !.priority = call.input[i].priority] = call.input[i]
         /\ ~HasEntryFor(call.resp, call.input[i].title) =>
              call.result.value[i].priority = call.input[i].priority
    /\ (~call.available \/ call.resp.raises \/ ParseFails(call.resp)) =>
         call.result.value = call.input

\* C9's case: the answer has an entry that would change a task's priority, then
\* an entry that cannot be read.
C9_Witness ==
  /\ call.op = "prioritize"
  /\ call.available
  /\ ~call.resp.raises
  /\ HasMatch(call.resp.text, LBracket, RBracket)
  /\ Parses(MatchGroup(call.resp.text, LBracket, RBracket), LBracket, RBracket, "element")
  /\ ElementRaises(call.resp.text[Len(call.resp.text) - 1])
  /\ \E i \in 1..Len(call.input) :
       /\ HasEntryFor(call.resp, call.input[i].title)
       /\ call.input[i].priority # Low

\* C10: as long as no write of the file has failed, the file holds the list of
\* the session at the end of every run.
C10_DiskMirrorsMemory ==
  failures = 0 => disk = [state |-> "json", tasks |-> tasks]

====
